---- MODULE Spec2Model ----
(***************************************************************************)
(* Model of core/src/socket.rs: the Sockets registry (a generational       *)
(* arena of Socket entries), the script-facing operations connect_avm1,    *)
(* connect_avm2, is_connected, send and close, the inbound action channel  *)
(* fed by the navigator backend, and the per-tick drain pass               *)
(* update_sockets with its per-kind dispatch and the XMLSocket framing.    *)
(***************************************************************************)
EXTENDS Integers, Sequences, FiniteSets, TLC

VARIABLES
    sockets,       \* Sockets::sockets, the Arena: [items, free_list_head, generation]
    receiver,      \* Sockets::receiver, the inbound queue of SocketAction values
    handle,        \* per script object: the Cell<Option<SocketHandle>> behind set_handle
    read_buffer,   \* per script object: read_buffer()
    write_buffer,  \* per Avm2 SocketObject: write_buffer()
    outbound,      \* every async_channel created by unbounded(): the data sent on it
    senders,       \* the channels whose AsyncSender is still alive
    backend,       \* what connect_socket handed to the backend, one record per call
    pc,            \* position of update_sockets: "idle" or "dispatch"
    actions,       \* the local `actions` vector of update_sockets
    log,           \* every notification dispatched to script code, in order
    removed,       \* every handle taken out of the arena, and by which operation
    sent,          \* every action the backend put on the channel so far, in order
    panicked       \* an expect() failed

vars == << sockets, receiver, handle, read_buffer, write_buffer, outbound, senders,
           backend, pc, actions, log, removed, sent, panicked >>

-----------------------------------------------------------------------------
(* Bounds of the model *)

MaxConnects == 2      \* connect calls (each creates one outbound channel)
MaxActions == 2       \* actions the backend enqueues in one behaviour
MaxOutbound == 2      \* payloads sent on one outbound channel
MaxStream == 4        \* actions the backend enqueues in a behaviour of SpecOrder
MaxData == 2          \* Data actions the backend enqueues in a behaviour of SpecFraming
MaxPayload == 2       \* length of a Data payload in SpecFraming
MaxWrite == 1         \* bytes a script puts into a write buffer

(* Program constants *)

DEFAULT_CAPACITY == 4     \* generational_arena: Arena::new() is with_capacity(4)
REPLACEMENT == 65533      \* U+FFFD, what lossy UTF-8 decoding yields for a bad byte

-----------------------------------------------------------------------------
(* Script objects *)

XmlSockets == {"xs"}                 \* Avm1 objects that are XMLSocket instances
Avm1Objects == XmlSockets \cup {"obj"} \* "obj" is an Avm1 object that is no XMLSocket
SocketObjects == {"so"}              \* Avm2 Socket objects
Targets == XmlSockets \cup SocketObjects

None == [tag |-> "None"]
NoIndex == -1                        \* Option<usize>::None of the arena's free list

Bytes == {0, 97, 255}
(* the payloads of Data actions and of send calls; SpecSend sends either of *)
(* two payloads                                                            *)
Payloads == {<<97>>, <<0>>}
SendPayloads == {<<97>>}
OutboundPayloads == {<<97>>, <<255>>}
FramePayloads == UNION {[1..n -> Bytes] : n \in 1..MaxPayload}

ConnectionState == {"Connected", "Failed", "TimedOut"}

(* SocketKind: which engine's object an entry notifies *)
Avm1(target) == [kind |-> "Avm1", obj |-> target]
Avm2(target) == [kind |-> "Avm2", obj |-> target]

(* Socket::new *)
Socket(target, sender) == [target |-> target, sender |-> sender]

(* XmlSocket::cast(target).is_some() *)
XmlSocketCast(target) == target \in XmlSockets

-----------------------------------------------------------------------------
(* generational_arena::Arena, as used through self.sockets *)

Free(next_free) == [tag |-> "Free", next_free |-> next_free]
Occupied(generation, value) == [tag |-> "Occupied", generation |-> generation, value |-> value]
Index(index, generation) == [index |-> index, generation |-> generation]

ArenaReserve(a, n) ==
    LET start == Len(a.items)
    IN [a EXCEPT !.items = a.items \o
                     [k \in 1..n |-> Free(IF k = n THEN a.free_list_head ELSE start + k)],
                 !.free_list_head = start]

ArenaNew ==
    ArenaReserve([items |-> <<>>, free_list_head |-> NoIndex, generation |-> 0],
                 DEFAULT_CAPACITY)

(* get that finds whatever entry occupies the slot *)
ArenaGetIgnoresGeneration(a, h) ==
    IF /\ h.index < Len(a.items)
       /\ a.items[h.index + 1].tag = "Occupied"
    THEN a.items[h.index + 1].value
    ELSE None

ArenaGet(a, h) ==
    IF /\ h.index < Len(a.items)
       /\ a.items[h.index + 1].tag = "Occupied"
       /\ a.items[h.index + 1].generation = h.generation
    THEN a.items[h.index + 1].value
    ELSE None

ArenaInsert(a, value) ==
    LET b == IF a.free_list_head = NoIndex
             THEN ArenaReserve(a, IF Len(a.items) = 0 THEN 1 ELSE Len(a.items))
             ELSE a
        i == b.free_list_head
    IN [arena |-> [b EXCEPT !.items[i + 1] = Occupied(b.generation, value),
                            !.free_list_head = b.items[i + 1].next_free],
        index |-> Index(i, b.generation)]

(* remove that frees the slot without advancing the generation *)
ArenaRemoveSameGeneration(a, h) ==
    IF ArenaGet(a, h) = None
    THEN [arena |-> a, value |-> None]
    ELSE [arena |-> [a EXCEPT !.items[h.index + 1] = Free(a.free_list_head),
                              !.free_list_head = h.index],
          value |-> ArenaGet(a, h)]

ArenaRemove(a, h) ==
    IF ArenaGet(a, h) = None
    THEN [arena |-> a, value |-> None]
    ELSE [arena |-> [a EXCEPT !.items[h.index + 1] = Free(a.free_list_head),
                              !.generation = a.generation + 1,
                              !.free_list_head = h.index],
          value |-> ArenaGet(a, h)]

(* the handles of the entries the arena holds *)
Live(a) ==
    {Index(i - 1, a.items[i].generation) :
        i \in {j \in 1..Len(a.items) : a.items[j].tag = "Occupied"}}

-----------------------------------------------------------------------------
(* The state the tick thread's operations read and write, as one record, so *)
(* that close can be applied inside connect and inside a script call alike  *)

TickState == [sockets |-> sockets, read_buffer |-> read_buffer,
              write_buffer |-> write_buffer, senders |-> senders,
              removed |-> removed, panicked |-> panicked]

(* Sockets::is_connected *)
is_connected(h) == ArenaGet(sockets, h) # None

(* close that drops the entry and leaves the object's buffers alone *)
closeKeepsBuffers(st, h) ==
    LET r == ArenaRemove(st.sockets, h)
    IN IF r.value = None
       THEN st
       ELSE [st EXCEPT !.sockets = r.arena,
                       !.senders = st.senders \ {r.value.sender},
                       !.removed = st.removed \cup {[handle |-> h, by |-> "close"]}]

(* Sockets::close on the state st *)
close(st, h) ==
    LET r == ArenaRemove(st.sockets, h)
        target == r.value.target
    IN IF r.value = None
       THEN st
       ELSE LET dropped == [st EXCEPT !.sockets = r.arena,
                                      !.senders = st.senders \ {r.value.sender},
                                      !.removed = st.removed \cup
                                                  {[handle |-> h, by |-> "close"]}]
            IN IF target.kind = "Avm1"
               THEN IF ~XmlSocketCast(target.obj)
                    THEN [dropped EXCEPT !.panicked = TRUE]
                    ELSE [dropped EXCEPT !.read_buffer[target.obj] = <<>>]
               ELSE [dropped EXCEPT !.read_buffer[target.obj] = <<>>,
                                    !.write_buffer[target.obj] = <<>>]

(* connect that closes the handle the object holds before it inserts the new *)
(* entry and calls the backend                                               *)
connectClosesFirst(kind, target) ==
    LET chan == Len(outbound) + 1
        existing_handle == handle[target]
        closed == IF existing_handle # None THEN close(TickState, existing_handle)
                  ELSE TickState
        ins == ArenaInsert(closed.sockets, Socket([kind |-> kind, obj |-> target], chan))
    IN /\ outbound' = Append(outbound, <<>>)
       /\ backend' = backend \cup
              {[handle |-> ins.index, receiver |-> chan, target |-> target,
                existing |-> existing_handle, before |-> Live(sockets),
                present |-> Live(ins.arena), buffered |-> read_buffer[target]]}
       /\ handle' = [handle EXCEPT ![target] = ins.index]
       /\ sockets' = ins.arena
       /\ read_buffer' = closed.read_buffer
       /\ write_buffer' = closed.write_buffer
       /\ senders' = closed.senders \cup {chan}
       /\ removed' = closed.removed
       /\ panicked' = closed.panicked
       /\ UNCHANGED << receiver, pc, actions, log, sent >>

(* connect that stores the new handle and leaves the entry of the handle the *)
(* object held before in the registry                                        *)
connectKeepsExisting(kind, target) ==
    LET chan == Len(outbound) + 1
        ins == ArenaInsert(sockets, Socket([kind |-> kind, obj |-> target], chan))
    IN /\ outbound' = Append(outbound, <<>>)
       /\ backend' = backend \cup
              {[handle |-> ins.index, receiver |-> chan, target |-> target,
                existing |-> handle[target], before |-> Live(sockets),
                present |-> Live(ins.arena), buffered |-> read_buffer[target]]}
       /\ handle' = [handle EXCEPT ![target] = ins.index]
       /\ sockets' = ins.arena
       /\ senders' = senders \cup {chan}
       /\ UNCHANGED << receiver, read_buffer, write_buffer, removed, panicked, pc,
                       actions, log, sent >>

(* the part of a connect call both engines share: insert the entry, call     *)
(* backend.connect_socket, store the handle in the object, close the handle  *)
(* the object held before                                                    *)
connect(kind, target) ==
    LET chan == Len(outbound) + 1
        ins == ArenaInsert(sockets, Socket([kind |-> kind, obj |-> target], chan))
        existing_handle == handle[target]
        inserted == [TickState EXCEPT !.sockets = ins.arena,
                                      !.senders = senders \cup {chan}]
        after == IF existing_handle # None THEN close(inserted, existing_handle)
                 ELSE inserted
    IN /\ outbound' = Append(outbound, <<>>)
       /\ backend' = backend \cup
              {[handle |-> ins.index, receiver |-> chan, target |-> target,
                existing |-> existing_handle, before |-> Live(sockets),
                present |-> Live(ins.arena), buffered |-> read_buffer[target]]}
       /\ handle' = [handle EXCEPT ![target] = ins.index]
       /\ sockets' = after.sockets
       /\ read_buffer' = after.read_buffer
       /\ write_buffer' = after.write_buffer
       /\ senders' = after.senders
       /\ removed' = after.removed
       /\ panicked' = after.panicked
       /\ UNCHANGED << receiver, pc, actions, log, sent >>

(* Sockets::connect_avm2 *)
connect_avm2(target) ==
    /\ pc = "idle" /\ ~panicked
    /\ Len(outbound) < MaxConnects
    /\ connect("Avm2", target)

(* Sockets::connect_avm1 *)
connect_avm1(target) ==
    /\ pc = "idle" /\ ~panicked
    /\ Len(outbound) < MaxConnects
    /\ IF ~XmlSocketCast(target)
       THEN /\ outbound' = Append(outbound, <<>>)
            /\ UNCHANGED << sockets, receiver, handle, read_buffer, write_buffer,
                            senders, backend, pc, actions, log, removed,
                            sent, panicked >>
       ELSE connect("Avm1", target)

(* the handles a caller can hold: every handle connect ever produced, and one *)
(* that was never produced                                                    *)
Issued == {b.handle : b \in backend}
BogusHandle == Index(DEFAULT_CAPACITY + MaxConnects, 0)
Handles == Issued \cup {BogusHandle}

(* send that takes the entry for granted: unwrap instead of if let *)
sendUnwraps(h, data) ==
    /\ pc = "idle" /\ ~panicked
    /\ LET socket == ArenaGet(sockets, h)
       IN IF socket # None
          THEN /\ Len(outbound[socket.sender]) < MaxOutbound
               /\ outbound' = [outbound EXCEPT ![socket.sender] = Append(@, data)]
               /\ UNCHANGED panicked
          ELSE /\ panicked' = TRUE
               /\ UNCHANGED outbound
    /\ UNCHANGED << sockets, receiver, handle, read_buffer, write_buffer, senders,
                    backend, pc, actions, log, removed, sent >>

(* send that puts the bytes in front of what the channel already holds *)
sendPrepends(h, data) ==
    /\ pc = "idle" /\ ~panicked
    /\ LET socket == ArenaGet(sockets, h)
       IN IF socket # None
          THEN /\ Len(outbound[socket.sender]) < MaxOutbound
               /\ outbound' = [outbound EXCEPT ![socket.sender] = <<data>> \o @]
          ELSE UNCHANGED outbound
    /\ UNCHANGED << sockets, receiver, handle, read_buffer, write_buffer, senders,
                    backend, pc, actions, log, removed, sent, panicked >>

(* Sockets::send *)
send(h, data) ==
    /\ pc = "idle" /\ ~panicked
    /\ LET socket == ArenaGet(sockets, h)
       IN IF socket # None
          THEN /\ Len(outbound[socket.sender]) < MaxOutbound
               /\ outbound' = [outbound EXCEPT ![socket.sender] = Append(@, data)]
          ELSE UNCHANGED outbound
    /\ UNCHANGED << sockets, receiver, handle, read_buffer, write_buffer, senders,
                    backend, pc, actions, log, removed, sent, panicked >>

(* a close call that also tells the script object that it was closed *)
CloseNotifies(h) ==
    /\ pc = "idle" /\ ~panicked
    /\ LET after == close(TickState, h)
           socket == ArenaGet(sockets, h)
       IN /\ sockets' = after.sockets
          /\ read_buffer' = after.read_buffer
          /\ write_buffer' = after.write_buffer
          /\ senders' = after.senders
          /\ removed' = after.removed
          /\ panicked' = after.panicked
          /\ log' = IF socket = None THEN log
                    ELSE Append(log, [handle |-> h, target |-> socket.target.obj,
                                      name |-> "close", arg |-> <<>>, id |-> 0])
    /\ UNCHANGED << receiver, handle, outbound, backend, pc, actions, sent >>

(* a script calling Sockets::close *)
Close(h) ==
    /\ pc = "idle" /\ ~panicked
    /\ LET after == close(TickState, h)
       IN /\ sockets' = after.sockets
          /\ read_buffer' = after.read_buffer
          /\ write_buffer' = after.write_buffer
          /\ senders' = after.senders
          /\ removed' = after.removed
          /\ panicked' = after.panicked
    /\ UNCHANGED << receiver, handle, outbound, backend, pc, actions, log, sent >>

(* a script writing into the write buffer of its Socket object *)
ScriptWrite(target, b) ==
    /\ pc = "idle" /\ ~panicked
    /\ Len(write_buffer[target]) < MaxWrite
    /\ write_buffer' = [write_buffer EXCEPT ![target] = Append(@, b)]
    /\ UNCHANGED << sockets, receiver, handle, read_buffer, outbound, senders, backend,
                    pc, actions, log, removed, sent, panicked >>

-----------------------------------------------------------------------------
(* The backend: it holds the handle and the inbound sender of every connect *)
(* call and may push any action for it at any time. A record of `backend`   *)
(* also keeps what the registry looked like around the call: the handle the *)
(* object held (existing), the handles present when connect was entered     *)
(* (before) and when connect_socket was called (present), and the object's  *)
(* read buffer                                                              *)

SocketAction(h) ==
    {[type |-> "Connect", handle |-> h, state |-> s, data |-> <<>>] : s \in ConnectionState}
    \cup {[type |-> "Data", handle |-> h, state |-> "", data |-> d] : d \in Payloads}
    \cup {[type |-> "Close", handle |-> h, state |-> "", data |-> <<>>]}

(* sender.send(action) of a backend task; id is the action's place in the    *)
(* order of all sends                                                        *)
Enqueue(a) ==
    LET queued == [id |-> Len(sent) + 1, action |-> a]
    IN /\ receiver' = Append(receiver, queued)
       /\ sent' = Append(sent, queued)
       /\ UNCHANGED << sockets, handle, read_buffer, write_buffer, outbound, senders,
                       backend, pc, actions, log, removed, panicked >>

BackendSend ==
    /\ Len(sent) < MaxActions
    /\ \E h \in Issued : \E a \in SocketAction(h) : Enqueue(a)

(* the backend of SpecOrder: the same sends, up to MaxStream of them *)
BackendStream ==
    /\ Len(sent) < MaxStream
    /\ \E h \in Issued : \E a \in SocketAction(h) : Enqueue(a)

(* the backend of SpecFraming: Data actions for the XMLSocket connections, *)
(* with every payload up to MaxPayload bytes                               *)
BackendData ==
    /\ Len(sent) < MaxData
    /\ \E b \in backend : \E d \in FramePayloads :
          /\ b.target \in XmlSockets
          /\ Enqueue([type |-> "Data", handle |-> b.handle, state |-> "", data |-> d])

-----------------------------------------------------------------------------
(* update_sockets *)

(* a notification reaching script code: an Avm1 method call or an Avm2 event; *)
(* handle and id say which action of which connection caused it               *)
Note(h, target, name, arg, id) ==
    [handle |-> h, target |-> target, name |-> name, arg |-> arg, id |-> id]

(* AvmString::new_utf8_bytes on the model's bytes: ASCII maps to itself, a    *)
(* byte that can never occur in UTF-8 becomes U+FFFD                          *)
new_utf8_bytes(message) ==
    [i \in 1..Len(message) |-> IF message[i] < 128 THEN message[i] ELSE REPLACEMENT]

(* buffer.iter().enumerate().find(|(_, &b)| b == 0), 0-based; NoIndex if none *)
FindZero(buffer) ==
    IF \E i \in 1..Len(buffer) : buffer[i] = 0
    THEN (CHOOSE i \in 1..Len(buffer) :
             /\ buffer[i] = 0
             /\ \A j \in 1..(i - 1) : buffer[j] # 0) - 1
    ELSE NoIndex

(* an `if let` in place of the `while let`: at most one message per Data *)
CheckForOneMessage(buffer) ==
    LET index == FindZero(buffer)
    IN IF index = NoIndex
       THEN [messages |-> <<>>, buffer |-> buffer]
       ELSE [messages |-> <<new_utf8_bytes(SubSeq(buffer, 1, index))>>,
             buffer |-> SubSeq(buffer, index + 2, Len(buffer))]

(* the `while let Some((index, _))` loop over the read buffer of an XMLSocket: *)
(* the onData messages it sends, in order, and the buffer it leaves            *)
RECURSIVE CheckForMessages(_)
CheckForMessages(buffer) ==
    LET index == FindZero(buffer)
    IN IF index = NoIndex
       THEN [messages |-> <<>>, buffer |-> buffer]
       ELSE LET message == SubSeq(buffer, 1, index)
                drained == SubSeq(buffer, index + 1, Len(buffer))
                rest == CheckForMessages(SubSeq(drained, 2, Len(drained)))
            IN [messages |-> <<new_utf8_bytes(message)>> \o rest.messages,
                buffer |-> rest.buffer]

(* a try_recv loop that collects the queued actions last one first *)
UpdateSocketsBeginReversed ==
    /\ pc = "idle" /\ ~panicked
    /\ actions' = [i \in 1..Len(receiver) |-> receiver[Len(receiver) + 1 - i]]
    /\ receiver' = <<>>
    /\ pc' = "dispatch"
    /\ UNCHANGED << sockets, handle, read_buffer, write_buffer, outbound, senders,
                    backend, log, removed, sent, panicked >>

(* a try_recv loop that reads the queued actions and leaves them queued *)
UpdateSocketsBeginPeeks ==
    /\ pc = "idle" /\ ~panicked
    /\ actions' = receiver
    /\ pc' = "dispatch"
    /\ UNCHANGED << sockets, receiver, handle, read_buffer, write_buffer, outbound,
                    senders, backend, log, removed, sent, panicked >>

(* the try_recv loop: every queued action moves into the local vector *)
UpdateSocketsBegin ==
    /\ pc = "idle" /\ ~panicked
    /\ actions' = receiver
    /\ receiver' = <<>>
    /\ pc' = "dispatch"
    /\ UNCHANGED << sockets, handle, read_buffer, write_buffer, outbound, senders,
                    backend, log, removed, sent, panicked >>

(* the action the for loop is at *)
Current == Head(actions)

(* SocketAction::Connect(handle, ConnectionState::Connected) *)
DispatchConnected ==
    /\ pc = "dispatch" /\ ~panicked /\ actions # <<>>
    /\ Current.action.type = "Connect" /\ Current.action.state = "Connected"
    /\ LET h == Current.action.handle
           socket == ArenaGet(sockets, h)
       IN IF socket = None
          THEN UNCHANGED log
          ELSE log' = Append(log,
                   IF socket.target.kind = "Avm2"
                   THEN Note(h, socket.target.obj, "connect", <<>>, Current.id)
                   ELSE Note(h, socket.target.obj, "onConnect", <<TRUE>>, Current.id))
    /\ actions' = Tail(actions)
    /\ UNCHANGED << sockets, receiver, handle, read_buffer, write_buffer, outbound,
                    senders, backend, pc, removed, sent, panicked >>

(* a failure arm that also drops the entry of the connection that failed *)
DispatchFailedRemoves ==
    /\ pc = "dispatch" /\ ~panicked /\ actions # <<>>
    /\ Current.action.type = "Connect"
    /\ Current.action.state \in {"Failed", "TimedOut"}
    /\ LET h == Current.action.handle
           r == ArenaRemove(sockets, h)
       IN /\ sockets' = r.arena
          /\ IF r.value = None
             THEN UNCHANGED << log, senders, removed >>
             ELSE /\ senders' = senders \ {r.value.sender}
                  /\ removed' = removed \cup {[handle |-> h, by |-> "Connect"]}
                  /\ log' = Append(log,
                        IF r.value.target.kind = "Avm2"
                        THEN Note(h, r.value.target.obj, "ioError",
                                  <<"Error #2031: Socket Error.", 2031>>, Current.id)
                        ELSE Note(h, r.value.target.obj, "onConnect", <<FALSE>>,
                                  Current.id))
    /\ actions' = Tail(actions)
    /\ UNCHANGED << receiver, handle, read_buffer, write_buffer, outbound, backend, pc,
                    sent, panicked >>

(* SocketAction::Connect(handle, ConnectionState::Failed | ConnectionState::TimedOut) *)
DispatchFailed ==
    /\ pc = "dispatch" /\ ~panicked /\ actions # <<>>
    /\ Current.action.type = "Connect"
    /\ Current.action.state \in {"Failed", "TimedOut"}
    /\ LET h == Current.action.handle
           socket == ArenaGet(sockets, h)
       IN IF socket = None
          THEN UNCHANGED log
          ELSE log' = Append(log,
                   IF socket.target.kind = "Avm2"
                   THEN Note(h, socket.target.obj, "ioError",
                             <<"Error #2031: Socket Error.", 2031>>, Current.id)
                   ELSE Note(h, socket.target.obj, "onConnect", <<FALSE>>, Current.id))
    /\ actions' = Tail(actions)
    /\ UNCHANGED << sockets, receiver, handle, read_buffer, write_buffer, outbound,
                    senders, backend, pc, removed, sent, panicked >>

(* SocketAction::Data(handle, data) *)
DispatchData ==
    /\ pc = "dispatch" /\ ~panicked /\ actions # <<>>
    /\ Current.action.type = "Data"
    /\ LET h == Current.action.handle
           data == Current.action.data
           socket == ArenaGet(sockets, h)
           target == socket.target.obj
       IN IF socket = None
          THEN UNCHANGED << read_buffer, log, panicked >>
          ELSE IF socket.target.kind = "Avm2"
          THEN /\ read_buffer' = [read_buffer EXCEPT ![target] = @ \o data]
               /\ log' = Append(log, Note(h, target, "socketData",
                                          <<Len(data), 0>>, Current.id))
               /\ UNCHANGED panicked
          ELSE IF ~XmlSocketCast(target)
          THEN /\ panicked' = TRUE
               /\ UNCHANGED << read_buffer, log >>
          ELSE LET r == CheckForMessages(read_buffer[target] \o data)
               IN /\ read_buffer' = [read_buffer EXCEPT ![target] = r.buffer]
                  /\ log' = log \o [i \in 1..Len(r.messages) |->
                                 Note(h, target, "onData", r.messages[i], Current.id)]
                     /\ UNCHANGED panicked
    /\ actions' = Tail(actions)
    /\ UNCHANGED << sockets, receiver, handle, write_buffer, outbound, senders,
                    backend, pc, removed, sent >>

(* a Close arm that notifies the object of the connection although the entry *)
(* is gone                                                                   *)
DispatchCloseNotifiesAbsent ==
    /\ pc = "dispatch" /\ ~panicked /\ actions # <<>>
    /\ Current.action.type = "Close"
    /\ LET h == Current.action.handle
           r == ArenaRemove(sockets, h)
           target == (CHOOSE b \in backend : b.handle = h).target
       IN /\ sockets' = r.arena
          /\ IF r.value = None
             THEN UNCHANGED << senders, removed, read_buffer, write_buffer >>
             ELSE /\ senders' = senders \ {r.value.sender}
                  /\ removed' = removed \cup {[handle |-> h, by |-> "Close"]}
                  /\ read_buffer' = [read_buffer EXCEPT ![target] = <<>>]
                  /\ write_buffer' = [t \in SocketObjects |->
                                         IF t = target THEN <<>> ELSE write_buffer[t]]
          /\ log' = Append(log, Note(h, target,
                                     IF target \in SocketObjects THEN "close" ELSE "onClose",
                                     <<>>, Current.id))
    /\ actions' = Tail(actions)
    /\ UNCHANGED << receiver, handle, outbound, backend, pc, sent, panicked >>

(* a Close arm that removes the entry and keeps its sender alive *)
DispatchCloseKeepsSender ==
    /\ pc = "dispatch" /\ ~panicked /\ actions # <<>>
    /\ Current.action.type = "Close"
    /\ LET h == Current.action.handle
           r == ArenaRemove(sockets, h)
           target == r.value.target.obj
       IN IF r.value = None
          THEN UNCHANGED << sockets, read_buffer, write_buffer, log, removed >>
          ELSE /\ sockets' = r.arena
               /\ removed' = removed \cup {[handle |-> h, by |-> "Close"]}
               /\ read_buffer' = [read_buffer EXCEPT ![target] = <<>>]
               /\ write_buffer' = [t \in SocketObjects |->
                                      IF t = target THEN <<>> ELSE write_buffer[t]]
               /\ log' = Append(log, Note(h, target,
                                          IF target \in SocketObjects THEN "close"
                                          ELSE "onClose", <<>>, Current.id))
    /\ actions' = Tail(actions)
    /\ UNCHANGED << receiver, handle, outbound, senders, backend, pc, sent, panicked >>

(* SocketAction::Close(handle) *)
DispatchClose ==
    /\ pc = "dispatch" /\ ~panicked /\ actions # <<>>
    /\ Current.action.type = "Close"
    /\ LET h == Current.action.handle
           r == ArenaRemove(sockets, h)
           target == r.value.target.obj
       IN IF r.value = None
          THEN UNCHANGED << sockets, read_buffer, write_buffer, senders, log, removed,
                            panicked >>
          ELSE /\ sockets' = r.arena
               /\ senders' = senders \ {r.value.sender}
               /\ removed' = removed \cup {[handle |-> h, by |-> "Close"]}
               /\ IF r.value.target.kind = "Avm2"
                  THEN /\ read_buffer' = [read_buffer EXCEPT ![target] = <<>>]
                       /\ write_buffer' = [write_buffer EXCEPT ![target] = <<>>]
                       /\ log' = Append(log, Note(h, target, "close", <<>>, Current.id))
                       /\ UNCHANGED panicked
                  ELSE IF ~XmlSocketCast(target)
                  THEN /\ panicked' = TRUE
                       /\ UNCHANGED << read_buffer, write_buffer, log >>
                  ELSE /\ read_buffer' = [read_buffer EXCEPT ![target] = <<>>]
                       /\ log' = Append(log, Note(h, target, "onClose", <<>>, Current.id))
                       /\ UNCHANGED << write_buffer, panicked >>
    /\ actions' = Tail(actions)
    /\ UNCHANGED << receiver, handle, outbound, backend, pc, sent >>

(* an update_sockets that polls the receiver again when its vector is used *)
(* up, and goes on in the same pass with what arrived meanwhile            *)
UpdateSocketsEndRepolls ==
    /\ pc = "dispatch" /\ ~panicked /\ actions = <<>>
    /\ IF receiver = <<>>
       THEN /\ pc' = "idle"
            /\ UNCHANGED << receiver, actions >>
       ELSE /\ actions' = receiver
            /\ receiver' = <<>>
            /\ UNCHANGED pc
    /\ UNCHANGED << sockets, handle, read_buffer, write_buffer, outbound,
                    senders, backend, log, removed, sent, panicked >>

(* the for loop has consumed the vector: update_sockets returns *)
UpdateSocketsEnd ==
    /\ pc = "dispatch" /\ ~panicked /\ actions = <<>>
    /\ pc' = "idle"
    /\ UNCHANGED << sockets, receiver, handle, read_buffer, write_buffer, outbound,
                    senders, backend, actions, log, removed, sent, panicked >>

-----------------------------------------------------------------------------
(* Sockets::empty, and script objects that never connected *)
Init ==
    /\ sockets = ArenaNew
    /\ receiver = <<>>
    /\ handle = [t \in Targets |-> None]
    /\ read_buffer = [t \in Targets |-> <<>>]
    /\ write_buffer = [t \in SocketObjects |-> <<>>]
    /\ outbound = <<>>
    /\ senders = {}
    /\ backend = {}
    /\ pc = "idle"
    /\ actions = <<>>
    /\ log = <<>>
    /\ removed = {}
    /\ sent = <<>>
    /\ panicked = FALSE

ConnectAvm1 == \E target \in Avm1Objects : connect_avm1(target)
ConnectAvm2 == \E target \in SocketObjects : connect_avm2(target)
Send == \E h \in Handles : \E data \in SendPayloads : send(h, data)
CloseCall == \E h \in Handles : Close(h)
Write == \E target \in SocketObjects : \E b \in {97} : ScriptWrite(target, b)

Next ==
    \/ ConnectAvm1
    \/ ConnectAvm2
    \/ Send
    \/ CloseCall
    \/ Write
    \/ BackendSend
    \/ UpdateSocketsBegin
    \/ DispatchConnected
    \/ DispatchFailed
    \/ DispatchData
    \/ DispatchClose
    \/ UpdateSocketsEnd

Spec == Init /\ [][Next]_vars

-----------------------------------------------------------------------------
(* The drain pass on its own: both script objects have connected, which is   *)
(* the state after connect_avm1("xs") and connect_avm2("so"), and from then  *)
(* on only the backend and update_sockets run                                *)

XsInserted == ArenaInsert(ArenaNew, Socket(Avm1("xs"), 1))
SoInserted == ArenaInsert(XsInserted.arena, Socket(Avm2("so"), 2))

InitConnected ==
    /\ sockets = SoInserted.arena
    /\ receiver = <<>>
    /\ handle = [t \in Targets |-> IF t = "xs" THEN XsInserted.index ELSE SoInserted.index]
    /\ read_buffer = [t \in Targets |-> <<>>]
    /\ write_buffer = [t \in SocketObjects |-> <<>>]
    /\ outbound = << <<>>, <<>> >>
    /\ senders = {1, 2}
    /\ backend = {[handle |-> XsInserted.index, receiver |-> 1, target |-> "xs",
                   existing |-> None, before |-> {},
                   present |-> {XsInserted.index}, buffered |-> <<>>],
                  [handle |-> SoInserted.index, receiver |-> 2, target |-> "so",
                   existing |-> None, before |-> {XsInserted.index},
                   present |-> {XsInserted.index, SoInserted.index},
                   buffered |-> <<>>]}
    /\ pc = "idle"
    /\ actions = <<>>
    /\ log = <<>>
    /\ removed = {}
    /\ sent = <<>>
    /\ panicked = FALSE

NextOrder ==
    \/ BackendStream
    \/ UpdateSocketsBegin
    \/ DispatchConnected
    \/ DispatchFailed
    \/ DispatchData
    \/ DispatchClose
    \/ UpdateSocketsEnd

SpecOrder == InitConnected /\ [][NextOrder]_vars

NextFraming ==
    \/ BackendData
    \/ UpdateSocketsBegin
    \/ DispatchData
    \/ UpdateSocketsEnd

SpecFraming == InitConnected /\ [][NextFraming]_vars

-----------------------------------------------------------------------------
(* The outbound side on its own: scripts connect, send either payload on    *)
(* any handle they hold and close, and no drain pass runs                   *)

SendBytes == \E h \in Handles : \E data \in OutboundPayloads : send(h, data)

NextSend ==
    \/ ConnectAvm1
    \/ ConnectAvm2
    \/ SendBytes
    \/ CloseCall

SpecSend == Init /\ [][NextSend]_vars

-----------------------------------------------------------------------------
(* update_sockets with script code that reacts. target.call_method and      *)
(* Avm2::dispatch_event run the handler of the script object before they    *)
(* return, and a handler may call back into Sockets: here it either returns *)
(* or calls close on the handle its object holds. A notification is kept    *)
(* with what its handler finds when it looks at its connection.             *)

Reactions == {"return", "close"}

View(st, h, target) ==
    [connected |-> ArenaGet(st.sockets, h) # None,
     read |-> st.read_buffer[target],
     write |-> IF target \in SocketObjects THEN st.write_buffer[target] ELSE <<>>]

Seen(h, target, name, arg, id, st) ==
    [handle |-> h, target |-> target, name |-> name, arg |-> arg, id |-> id,
     view |-> View(st, h, target)]

(* Sockets::close called while the objects of `borrowed` have their read    *)
(* buffer mutably borrowed by a caller further up the stack: read_buffer()  *)
(* of such an XMLSocket is a second mutable borrow, which panics after the  *)
(* entry is removed and its sender dropped                                  *)
closeWhile(st, h, borrowed) ==
    LET r == ArenaRemove(st.sockets, h)
        target == r.value.target
    IN IF r.value = None
       THEN st
       ELSE IF target.kind = "Avm1" /\ target.obj \in borrowed
       THEN [st EXCEPT !.sockets = r.arena,
                       !.senders = st.senders \ {r.value.sender},
                       !.removed = st.removed \cup {[handle |-> h, by |-> "close"]},
                       !.panicked = TRUE]
       ELSE close(st, h)

(* the handler of a notification to target runs on the state st *)
Handler(st, target, reaction, borrowed) ==
    IF reaction = "close" /\ handle[target] # None
    THEN closeWhile(st, handle[target], borrowed)
    ELSE st

(* the state a dispatch arm leaves *)
Leave(st) ==
    /\ sockets' = st.sockets
    /\ read_buffer' = st.read_buffer
    /\ write_buffer' = st.write_buffer
    /\ senders' = st.senders
    /\ removed' = st.removed
    /\ panicked' = st.panicked

(* the `while let` loop of the Avm1 Data arm with handlers that react: the  *)
(* loop holds `buffer`, the mutable borrow of the object's read buffer,     *)
(* across every call of onData; the handler of call number closes_at calls  *)
(* close (0: none does)                                                     *)
RECURSIVE OnDataLoop(_, _, _, _, _, _)
OnDataLoop(st, buffer, h, target, id, closes_at) ==
    LET index == FindZero(buffer)
    IN IF index = NoIndex
       THEN [st |-> st, buffer |-> buffer, notes |-> <<>>]
       ELSE LET message == SubSeq(buffer, 1, index)
                left == SubSeq(buffer, index + 2, Len(buffer))
                note == Seen(h, target, "onData", new_utf8_bytes(message), id,
                             [st EXCEPT !.read_buffer[target] = left])
                after == Handler(st, target,
                                 IF closes_at = 1 THEN "close" ELSE "return", {target})
            IN IF after.panicked
               THEN [st |-> after, buffer |-> left, notes |-> <<note>>]
               ELSE LET rest == OnDataLoop(after, left, h, target, id,
                                           IF closes_at = 0 THEN 0 ELSE closes_at - 1)
                    IN [st |-> rest.st, buffer |-> rest.buffer,
                        notes |-> <<note>> \o rest.notes]

(* SocketAction::Connect(handle, ConnectionState::Connected) *)
CallbackConnected ==
    /\ pc = "dispatch" /\ ~panicked /\ actions # <<>>
    /\ Current.action.type = "Connect" /\ Current.action.state = "Connected"
    /\ \E reaction \in Reactions :
          LET h == Current.action.handle
              socket == ArenaGet(sockets, h)
              target == socket.target.obj
          IN IF socket = None
             THEN UNCHANGED << sockets, read_buffer, write_buffer, senders, removed,
                               panicked, log >>
             ELSE /\ log' = Append(log,
                         IF socket.target.kind = "Avm2"
                         THEN Seen(h, target, "connect", <<>>, Current.id, TickState)
                         ELSE Seen(h, target, "onConnect", <<TRUE>>, Current.id,
                                   TickState))
                  /\ Leave(Handler(TickState, target, reaction, {}))
    /\ actions' = Tail(actions)
    /\ UNCHANGED << receiver, handle, outbound, backend, pc, sent >>

(* a failure arm that tells a Socket whether the connection timed out *)
CallbackFailedTellsCause ==
    /\ pc = "dispatch" /\ ~panicked /\ actions # <<>>
    /\ Current.action.type = "Connect"
    /\ Current.action.state \in {"Failed", "TimedOut"}
    /\ \E reaction \in Reactions :
          LET h == Current.action.handle
              socket == ArenaGet(sockets, h)
              target == socket.target.obj
          IN IF socket = None
             THEN UNCHANGED << sockets, read_buffer, write_buffer, senders, removed,
                               panicked, log >>
             ELSE /\ log' = Append(log,
                         IF socket.target.kind = "Avm2"
                         THEN Seen(h, target, "ioError",
                                   <<"Error #2031: Socket Error.", 2031,
                                     Current.action.state>>, Current.id,
                                   TickState)
                         ELSE Seen(h, target, "onConnect", <<FALSE>>, Current.id,
                                   TickState))
                  /\ Leave(Handler(TickState, target, reaction, {}))
    /\ actions' = Tail(actions)
    /\ UNCHANGED << receiver, handle, outbound, backend, pc, sent >>

(* SocketAction::Connect(handle, ConnectionState::Failed | ConnectionState::TimedOut) *)
CallbackFailed ==
    /\ pc = "dispatch" /\ ~panicked /\ actions # <<>>
    /\ Current.action.type = "Connect"
    /\ Current.action.state \in {"Failed", "TimedOut"}
    /\ \E reaction \in Reactions :
          LET h == Current.action.handle
              socket == ArenaGet(sockets, h)
              target == socket.target.obj
          IN IF socket = None
             THEN UNCHANGED << sockets, read_buffer, write_buffer, senders, removed,
                               panicked, log >>
             ELSE /\ log' = Append(log,
                         IF socket.target.kind = "Avm2"
                         THEN Seen(h, target, "ioError",
                                   <<"Error #2031: Socket Error.", 2031>>, Current.id,
                                   TickState)
                         ELSE Seen(h, target, "onConnect", <<FALSE>>, Current.id,
                                   TickState))
                  /\ Leave(Handler(TickState, target, reaction, {}))
    /\ actions' = Tail(actions)
    /\ UNCHANGED << receiver, handle, outbound, backend, pc, sent >>

(* a Data arm whose progress event reports the size of the whole read buffer *)
CallbackDataCumulative ==
    /\ pc = "dispatch" /\ ~panicked /\ actions # <<>>
    /\ Current.action.type = "Data"
    /\ LET h == Current.action.handle
           data == Current.action.data
           socket == ArenaGet(sockets, h)
           target == socket.target.obj
       IN IF socket = None
          THEN UNCHANGED << sockets, read_buffer, write_buffer, senders, removed,
                            panicked, log >>
          ELSE IF socket.target.kind = "Avm2"
          THEN \E reaction \in Reactions :
                  LET extended == [TickState EXCEPT !.read_buffer[target] = @ \o data]
                  IN /\ log' = Append(log, Seen(h, target, "socketData",
                                                <<Len(extended.read_buffer[target]), 0>>, Current.id, extended))
                     /\ Leave(Handler(extended, target, reaction, {}))
          ELSE IF ~XmlSocketCast(target)
          THEN /\ panicked' = TRUE
               /\ UNCHANGED << sockets, read_buffer, write_buffer, senders, removed,
                               log >>
          ELSE \E closes_at \in 0..Len(data) :
                  LET r == OnDataLoop(TickState, read_buffer[target] \o data, h, target,
                                      Current.id, closes_at)
                  IN /\ log' = log \o r.notes
                     /\ Leave([r.st EXCEPT !.read_buffer[target] = r.buffer])
    /\ actions' = Tail(actions)
    /\ UNCHANGED << receiver, handle, outbound, backend, pc, sent >>

(* SocketAction::Data(handle, data) *)
CallbackData ==
    /\ pc = "dispatch" /\ ~panicked /\ actions # <<>>
    /\ Current.action.type = "Data"
    /\ LET h == Current.action.handle
           data == Current.action.data
           socket == ArenaGet(sockets, h)
           target == socket.target.obj
       IN IF socket = None
          THEN UNCHANGED << sockets, read_buffer, write_buffer, senders, removed,
                            panicked, log >>
          ELSE IF socket.target.kind = "Avm2"
          THEN \E reaction \in Reactions :
                  LET extended == [TickState EXCEPT !.read_buffer[target] = @ \o data]
                  IN /\ log' = Append(log, Seen(h, target, "socketData",
                                                <<Len(data), 0>>, Current.id, extended))
                     /\ Leave(Handler(extended, target, reaction, {}))
          ELSE IF ~XmlSocketCast(target)
          THEN /\ panicked' = TRUE
               /\ UNCHANGED << sockets, read_buffer, write_buffer, senders, removed,
                               log >>
          ELSE \E closes_at \in 0..Len(data) :
                  LET r == OnDataLoop(TickState, read_buffer[target] \o data, h, target,
                                      Current.id, closes_at)
                  IN /\ log' = log \o r.notes
                     /\ Leave([r.st EXCEPT !.read_buffer[target] = r.buffer])
    /\ actions' = Tail(actions)
    /\ UNCHANGED << receiver, handle, outbound, backend, pc, sent >>

(* a Close arm that dispatches the notification first and removes the entry *)
(* and clears the buffers when the handler has returned                     *)
CallbackCloseNotifiesFirst ==
    /\ pc = "dispatch" /\ ~panicked /\ actions # <<>>
    /\ Current.action.type = "Close"
    /\ \E reaction \in Reactions :
          LET h == Current.action.handle
              r == ArenaRemove(sockets, h)
              target == r.value.target.obj
              dropped == [TickState EXCEPT
                             !.sockets = r.arena,
                             !.senders = senders \ {r.value.sender},
                             !.removed = removed \cup {[handle |-> h, by |-> "Close"]}]
          IN IF r.value = None
             THEN UNCHANGED << sockets, read_buffer, write_buffer, senders, removed,
                               panicked, log >>
             ELSE IF r.value.target.kind = "Avm2"
             THEN LET cleared == [dropped EXCEPT !.read_buffer[target] = <<>>,
                                                 !.write_buffer[target] = <<>>]
                  IN /\ log' = Append(log, Seen(h, target, "close", <<>>, Current.id,
                                                TickState))
                     /\ Leave(Handler(cleared, target, reaction, {}))
             ELSE IF ~XmlSocketCast(target)
             THEN /\ Leave([dropped EXCEPT !.panicked = TRUE])
                  /\ UNCHANGED log
             ELSE LET cleared == [dropped EXCEPT !.read_buffer[target] = <<>>]
                  IN /\ log' = Append(log, Seen(h, target, "onClose", <<>>, Current.id,
                                                TickState))
                     /\ Leave(Handler(cleared, target, reaction, {}))
    /\ actions' = Tail(actions)
    /\ UNCHANGED << receiver, handle, outbound, backend, pc, sent >>

(* SocketAction::Close(handle) *)
CallbackClose ==
    /\ pc = "dispatch" /\ ~panicked /\ actions # <<>>
    /\ Current.action.type = "Close"
    /\ \E reaction \in Reactions :
          LET h == Current.action.handle
              r == ArenaRemove(sockets, h)
              target == r.value.target.obj
              dropped == [TickState EXCEPT
                             !.sockets = r.arena,
                             !.senders = senders \ {r.value.sender},
                             !.removed = removed \cup {[handle |-> h, by |-> "Close"]}]
          IN IF r.value = None
             THEN UNCHANGED << sockets, read_buffer, write_buffer, senders, removed,
                               panicked, log >>
             ELSE IF r.value.target.kind = "Avm2"
             THEN LET cleared == [dropped EXCEPT !.read_buffer[target] = <<>>,
                                                 !.write_buffer[target] = <<>>]
                  IN /\ log' = Append(log, Seen(h, target, "close", <<>>, Current.id,
                                                cleared))
                     /\ Leave(Handler(cleared, target, reaction, {}))
             ELSE IF ~XmlSocketCast(target)
             THEN /\ Leave([dropped EXCEPT !.panicked = TRUE])
                  /\ UNCHANGED log
             ELSE LET cleared == [dropped EXCEPT !.read_buffer[target] = <<>>]
                  IN /\ log' = Append(log, Seen(h, target, "onClose", <<>>, Current.id,
                                                cleared))
                     /\ Leave(Handler(cleared, target, reaction, {}))
    /\ actions' = Tail(actions)
    /\ UNCHANGED << receiver, handle, outbound, backend, pc, sent >>

(* the backend of SpecCallbacks: the sends of BackendSend, and a payload of *)
(* two delimiters, which an XMLSocket receives as two messages; between the *)
(* passes the script may write into the write buffer of its Socket          *)
BackendCallbacks ==
    /\ Len(sent) < MaxActions
    /\ \E h \in Issued :
          \E a \in SocketAction(h) \cup
                   {[type |-> "Data", handle |-> h, state |-> "", data |-> <<0, 0>>]} :
             Enqueue(a)

NextCallbacks ==
    \/ Write
    \/ BackendCallbacks
    \/ UpdateSocketsBegin
    \/ CallbackConnected
    \/ CallbackFailed
    \/ CallbackData
    \/ CallbackClose
    \/ UpdateSocketsEnd

SpecCallbacks == InitConnected /\ [][NextCallbacks]_vars

(* The same with the scheduling the player gives update_sockets: it is      *)
(* called on every tick, so a pass always begins again, and a pass that has *)
(* begun walks its vector to the end and returns. Nothing is assumed of the *)
(* backend, which sends at most MaxActions actions and then pauses.         *)
CallbackArm ==
    \/ CallbackConnected
    \/ CallbackFailed
    \/ CallbackData
    \/ CallbackClose

SpecTicking ==
    /\ InitConnected
    /\ [][NextCallbacks]_vars
    /\ WF_vars(UpdateSocketsBegin)
    /\ WF_vars(CallbackArm)
    /\ WF_vars(UpdateSocketsEnd)

-----------------------------------------------------------------------------
(* Definitions the properties share *)

Kind(target) == IF target \in SocketObjects THEN "Avm2" ELSE "Avm1"
RemovedHandles == {r.handle : r \in removed}
Pending == {receiver[i].id : i \in 1..Len(receiver)} \cup
           {actions[i].id : i \in 1..Len(actions)}
(* the actions a drain pass has taken from its vector and handled *)
Processed == {sent[i] : i \in {j \in 1..Len(sent) : j \notin Pending}}
NotesOf(h, name) == SelectSeq(log, LAMBDA n : n.handle = h /\ n.name = name)
(* the record connect_socket received in this step, if the step is a connect *)
NewCall == CHOOSE b \in backend' : b \notin backend

-----------------------------------------------------------------------------
(* C1: Handle uniqueness and stale-handle safety. No handle value is ever   *)
(* produced twice, every entry of the registry is found under the handle    *)
(* its own connect call produced and is the entry that call inserted, and a *)
(* handle that was removed finds no entry ever after, also when its slot    *)
(* holds a newer connection.                                                *)
C1_HandleSafety ==
    /\ \A b1, b2 \in backend : b1.handle = b2.handle => b1 = b2
    /\ \A h \in Live(sockets) : \E b \in backend :
          /\ b.handle = h
          /\ ArenaGet(sockets, h) =
                 Socket([kind |-> Kind(b.target), obj |-> b.target], b.receiver)
    /\ \A h \in RemovedHandles : h \notin Live(sockets) /\ ~is_connected(h)

(* a removed handle whose arena slot now holds a newer connection *)
C1_Witness ==
    \E h1 \in RemovedHandles : \E h2 \in Live(sockets) :
        h1.index = h2.index /\ h1 # h2 /\ ~is_connected(h1) /\ is_connected(h2)

(* C2: Reconnection displacement. A connect call on an object whose handle  *)
(* slot holds a live handle H1 produces H2 # H1; when it returns H1 is      *)
(* absent, H2 is present and stored in the slot, and the object's read      *)
(* buffer (for an Avm2 object its write buffer too) is empty.               *)
C2_Displacement ==
    [][\A t \in Targets :
          (backend' # backend /\ NewCall.target = t /\ handle[t] \in Live(sockets))
          => /\ NewCall.handle # handle[t]
             /\ handle[t] \notin Live(sockets')
             /\ NewCall.handle \in Live(sockets')
             /\ handle'[t] = NewCall.handle
             /\ read_buffer'[t] = <<>>
             /\ (t \in SocketObjects => write_buffer'[t] = <<>>)]_vars

(* a reconnect has displaced a live handle of an object with buffered bytes *)
C2_Witness ==
    \E b \in backend :
        /\ b.existing \in b.present
        /\ b.buffered # <<>>
        /\ handle[b.target] = b.handle
        /\ b.handle \in Live(sockets)
        /\ b.existing \notin Live(sockets)
        /\ read_buffer[b.target] = <<>>

(* C3: Idempotent close. As claimed: for a live handle, close followed by a   *)
(* Close action for the same handle that a later drain pass processes yields *)
(* exactly one close notification (onClose or "close") on the target.        *)
CloseNotes(h) == Len(NotesOf(h, "close")) + Len(NotesOf(h, "onClose"))
ClosedThenCloseAction(h) ==
    /\ [handle |-> h, by |-> "close"] \in removed
    /\ \E a \in Processed : a.action.type = "Close" /\ a.action.handle = h

C3_Original == \A h \in Issued : ClosedThenCloseAction(h) => CloseNotes(h) = 1

(* C3 as amended: close never notifies and a Close action for a handle that  *)
(* close removed is dropped, so close twice, or close and then a processed   *)
(* Close action, yield no close notification and no error; a handle gets a   *)
(* close notification exactly when a processed Close action removes its      *)
(* entry, hence at most once.                                                *)
C3_IdempotentClose ==
    /\ ~panicked
    /\ \A h \in Issued :
          /\ CloseNotes(h) <= 1
          /\ [handle |-> h, by |-> "close"] \in removed => CloseNotes(h) = 0
          /\ CloseNotes(h) = 1 <=> [handle |-> h, by |-> "Close"] \in removed

(* a handle closed by a call whose Close action a later pass has processed; *)
(* a second close call on it is enabled here and leaves this state as it is *)
C3_Witness ==
    \E h \in Issued :
        ClosedThenCloseAction(h) /\ pc = "idle" /\ CloseNotes(h) = 0 /\ ENABLED Close(h)

(* C4: Buffer mutation and dispatch confinement. As claimed: outside a drain *)
(* pass no operation of the registry (connect_avm1, connect_avm2, close,     *)
(* send) changes a read or write buffer or dispatches a notification.        *)
ScriptWrites == \E t \in SocketObjects : \E b \in Bytes : ScriptWrite(t, b)

C4_Original ==
    [][(pc = "idle" /\ ~ScriptWrites)
       => (read_buffer' = read_buffer /\ write_buffer' = write_buffer /\ log' = log)]_vars

(* C4 as amended: notifications are dispatched only inside a drain pass.     *)
(* Outside a drain pass the registry changes a buffer only by emptying it in *)
(* close, when close removes a live entry of that object; this includes the  *)
(* close a connect call performs on the handle the object held. A connect on *)
(* an object that holds no live handle changes no buffer.                    *)
EntryRemoved(t) ==
    \E h \in Live(sockets) : h \notin Live(sockets') /\ ArenaGet(sockets, h).target.obj = t

C4_Confinement ==
    [][/\ log' # log => pc = "dispatch"
       /\ (pc = "idle" /\ ~ScriptWrites) =>
             \A t \in Targets :
                /\ read_buffer'[t] # read_buffer[t]
                      => (read_buffer'[t] = <<>> /\ EntryRemoved(t))
                /\ t \in SocketObjects /\ write_buffer'[t] # write_buffer[t]
                      => (write_buffer'[t] = <<>> /\ EntryRemoved(t))]_vars

(* outside a drain pass, a connect has emptied a read buffer that held bytes, *)
(* and the displaced handle got no notification                               *)
C4_Witness ==
    \E b \in backend :
        /\ pc = "idle"
        /\ b.existing \in b.before
        /\ b.buffered # <<>>
        /\ read_buffer[b.target] = <<>>
        /\ NotesOf(b.existing, "close") = <<>> /\ NotesOf(b.existing, "onClose") = <<>>

(* C5: Close-before-connect ordering. As claimed: the handle H1 an object    *)
(* holds is closed before the new entry is inserted and before connect_socket *)
(* is invoked, so a live H1 is absent when the backend is called.             *)
C5_Original == \A b \in backend : b.existing \in b.before => b.existing \notin b.present

(* C5 as amended: H1 is closed inside the same connect call, but last: the   *)
(* new entry is inserted and connect_socket is invoked for the new handle    *)
(* while H1 is still present; when connect has returned H1 is absent and its *)
(* sender is dropped.                                                        *)
C5_CloseAfterInsert ==
    \A b \in backend :
        /\ b.handle \in b.present /\ b.handle \notin b.before
        /\ b.existing \in b.before =>
              /\ b.existing \in b.present
              /\ b.existing \notin Live(sockets)
              /\ \A b1 \in backend : b1.handle = b.existing => b1.receiver \notin senders

(* a connect that found its object holding a live handle has returned *)
C5_Witness ==
    \E b \in backend :
        /\ b.existing \in b.before
        /\ b.existing \in b.present
        /\ b.handle \in Live(sockets)
        /\ handle[b.target] = b.handle

(* C8: Unknown-handle robustness. A drain pass that handles an action whose  *)
(* handle is absent from the registry, whatever the action is, dispatches    *)
(* nothing, does not panic, and leaves the registry, every read and write    *)
(* buffer and every outbound channel as they are.                            *)
DispatchStep == pc = "dispatch" /\ actions # <<>> /\ actions' = Tail(actions)

C8_UnknownHandle ==
    [][(DispatchStep /\ Current.action.handle \notin Live(sockets))
       => /\ log' = log
          /\ sockets' = sockets
          /\ read_buffer' = read_buffer /\ write_buffer' = write_buffer
          /\ outbound' = outbound /\ senders' = senders
          /\ ~panicked']_vars

(* a Connect action for a removed handle was handled and dispatched nothing, *)
(* although the handle's slot holds a newer connection                       *)
C8_Witness ==
    \E a \in Processed :
        /\ a.action.type = "Connect"
        /\ a.action.handle \in RemovedHandles
        /\ \A i \in 1..Len(log) : log[i].id # a.id
        /\ \E h \in Live(sockets) : h.index = a.action.handle.index
        /\ ~panicked

(* C9: Silent send drop. send on a handle that is absent from the registry   *)
(* (never issued, closed, or removed by a Close action) puts nothing on any  *)
(* outbound channel, changes no entry and no buffer, and returns normally.   *)
C9_SilentSendDrop ==
    [][\A h \in Handles : \A data \in SendPayloads :
          (h \notin Live(sockets) /\ send(h, data)) => UNCHANGED vars]_vars

(* a removed handle whose slot holds a newer connection with an open, empty  *)
(* outbound channel: send on the removed handle can be called here, and it   *)
(* returns in this same state                                                *)
C9_Witness ==
    \E h1 \in RemovedHandles : \E h2 \in Live(sockets) :
        /\ h1.index = h2.index
        /\ outbound[ArenaGet(sockets, h2).sender] = <<>>
        /\ \A i \in 1..Len(outbound) : outbound[i] = <<>>
        /\ \E data \in SendPayloads : ENABLED send(h1, data)
        /\ \E data \in SendPayloads : ENABLED send(BogusHandle, data)

(* C10: is_connected is registry membership only. is_connected(h) is true    *)
(* from the connect call that produced h until close(h) or a processed       *)
(* Close(h) removes the entry, and false ever after; nothing else removes an *)
(* entry, so it stays true after a failed or timed-out connect.              *)
C10_RegistryMembership ==
    /\ \A h \in Handles : is_connected(h) <=> (h \in Issued /\ h \notin RemovedHandles)
    /\ \A r \in removed : r.by \in {"close", "Close"}
    /\ Live(sockets) = Issued \ RemovedHandles

(* a connection whose Connect(Failed) or Connect(TimedOut) was dispatched is *)
(* still reported as connected                                               *)
C10_Witness ==
    \E i \in 1..Len(log) :
        /\ log[i].name = "ioError" \/ (log[i].name = "onConnect" /\ log[i].arg = <<FALSE>>)
        /\ is_connected(log[i].handle)

(* C6: Per-connection dispatch order. The notifications of one handle are    *)
(* dispatched in the order in which its actions were put on the inbound      *)
(* channel, whatever actions of other handles lie between them, and each is  *)
(* the notification of its action; the stream Connect(Connected), Data(b1),  *)
(* Data(b2), Close of an Avm2 connection is dispatched as connect,           *)
(* socketData(b1), socketData(b2), close.                                    *)
NoteOfAction(n) ==
    LET a == sent[n.id].action
    IN /\ a.handle = n.handle
       /\ \E b \in backend : b.handle = n.handle /\ b.target = n.target
       /\ CASE a.type = "Connect" /\ a.state = "Connected" ->
                 n.name \in {"connect", "onConnect"} /\ n.arg \in {<<>>, <<TRUE>>}
            [] a.type = "Connect" /\ a.state # "Connected" ->
                 n.name \in {"ioError", "onConnect"} /\ n.arg # <<TRUE>>
            [] a.type = "Data" -> n.name \in {"socketData", "onData"}
            [] a.type = "Close" -> n.name \in {"close", "onClose"}

ExampleStream(h, b1, b2) ==
    << [type |-> "Connect", handle |-> h, state |-> "Connected", data |-> <<>>],
       [type |-> "Data", handle |-> h, state |-> "", data |-> b1],
       [type |-> "Data", handle |-> h, state |-> "", data |-> b2],
       [type |-> "Close", handle |-> h, state |-> "", data |-> <<>>] >>

ExampleNotes(h, b1, b2) ==
    << Note(h, "so", "connect", <<>>, 1),
       Note(h, "so", "socketData", <<Len(b1), 0>>, 2),
       Note(h, "so", "socketData", <<Len(b2), 0>>, 3),
       Note(h, "so", "close", <<>>, 4) >>

C6_DispatchOrder ==
    /\ \A i, j \in 1..Len(log) :
          (i < j /\ log[i].handle = log[j].handle) => log[i].id <= log[j].id
    /\ \A i \in 1..Len(log) : NoteOfAction(log[i])
    /\ \A b1, b2 \in Payloads :
          ([i \in 1..Len(sent) |-> sent[i].action] = ExampleStream(handle["so"], b1, b2)
             /\ Pending = {})
          => log = ExampleNotes(handle["so"], b1, b2)

(* two notifications of one connection with a notification of the other     *)
(* connection dispatched between them                                        *)
C6_Witness ==
    \E i, j, k \in 1..Len(log) :
        /\ i < j /\ j < k
        /\ log[i].handle = log[k].handle
        /\ log[j].handle # log[i].handle
        /\ log[i].id < log[j].id /\ log[j].id < log[k].id

(* the example stream of C6 has been dispatched *)
C6_ExampleReached ==
    \E b1, b2 \in Payloads :
        /\ [i \in 1..Len(sent) |-> sent[i].action] = ExampleStream(handle["so"], b1, b2)
        /\ b1 # b2
        /\ log = ExampleNotes(handle["so"], b1, b2)

(* C7: Framing correctness for Legacy targets. For a live XMLSocket          *)
(* connection, the onData messages delivered so far are, in order, the       *)
(* zero-terminated segments (delimiter excluded, decoded as text) of the     *)
(* concatenation of all Data payloads handled for it, and its read buffer    *)
(* holds exactly the bytes after the last zero byte.                         *)
RECURSIVE DataHandled(_, _)
DataHandled(h, n) ==
    IF n = 0 THEN <<>>
    ELSE DataHandled(h, n - 1) \o
         (IF sent[n] \in Processed /\ sent[n].action.type = "Data"
             /\ sent[n].action.handle = h
          THEN sent[n].action.data ELSE <<>>)

Zeros(stream) == {i \in 1..Len(stream) : stream[i] = 0}
NthZero(stream, k) ==
    CHOOSE i \in Zeros(stream) : Cardinality({j \in Zeros(stream) : j < i}) = k - 1
Segment(stream, k) ==
    SubSeq(stream, IF k = 1 THEN 1 ELSE NthZero(stream, k - 1) + 1, NthZero(stream, k) - 1)
Segments(stream) == [k \in 1..Cardinality(Zeros(stream)) |-> new_utf8_bytes(Segment(stream, k))]
AfterLastZero(stream) ==
    SubSeq(stream,
           IF Zeros(stream) = {} THEN 1 ELSE NthZero(stream, Cardinality(Zeros(stream))) + 1,
           Len(stream))

C7_Framing ==
    \A t \in XmlSockets :
        handle[t] \in Live(sockets) =>
           LET stream == DataHandled(handle[t], Len(sent))
               notes == NotesOf(handle[t], "onData")
           IN /\ [i \in 1..Len(notes) |-> notes[i].arg] = Segments(stream)
              /\ read_buffer[t] = AfterLastZero(stream)

(* one Data action delivered two messages, a later one delivered a message   *)
(* that began in an earlier payload, and a byte that is no text was decoded  *)
C7_Witness ==
    \E t \in XmlSockets :
        LET notes == NotesOf(handle[t], "onData")
        IN /\ handle[t] \in Live(sockets)
           /\ \E i, j \in 1..Len(notes) : i < j /\ notes[i].id = notes[j].id
           /\ \E i \in 1..Len(notes) :
                 /\ Len(notes[i].arg) > Len(sent[notes[i].id].action.data) - 1
                 /\ \E k \in 1..Len(notes[i].arg) : notes[i].arg[k] = REPLACEMENT

-----------------------------------------------------------------------------
(* the notifications of connection h in the log l *)
NotesAbout(h, l) == SelectSeq(l, LAMBDA n : n.handle = h)

(* C11: No notification after removal, including re-entrant close. Once a   *)
(* handle has been removed from the registry no notification of that handle *)
(* is dispatched again: a step adds no notification of a handle that was    *)
(* removed before it, every handler of a connect or data notification finds *)
(* its connection in the registry, and when a handler called during a drain *)
(* pass calls close on its own handle the pass goes on without crashing.    *)
C11_NoNotificationAfterRemoval ==
    [][/\ ~panicked'
       /\ \A h \in RemovedHandles : NotesAbout(h, log') = NotesAbout(h, log)
       /\ \A i \in 1..Len(log') :
             log'[i].name \notin {"close", "onClose"} => log'[i].view.connected]_vars

(* the part of C11 that the code keeps: whatever the handlers do, no        *)
(* notification of a handle follows its removal                             *)
C11_RemovedStaysSilent ==
    [][/\ \A h \in RemovedHandles : NotesAbout(h, log') = NotesAbout(h, log)
       /\ \A i \in 1..Len(log') :
             log'[i].name \notin {"close", "onClose"} => log'[i].view.connected]_vars

(* an onData handler closed its own XMLSocket and the process panicked with *)
(* the entry already removed                                                *)
C11_PanicInOnData ==
    /\ panicked
    /\ \E r \in removed : r.by = "close" /\ NotesOf(r.handle, "onData") # <<>>

-----------------------------------------------------------------------------
(* the handles of the live entries whose target is the script object t *)
LiveOf(t) == {h \in Live(sockets) : ArenaGet(sockets, h).target.obj = t}

(* C12: One live entry per target. In every state between operations each  *)
(* script object has at most one live registry entry, and if it has one its *)
(* handle is the value of the object's current-handle slot.                 *)
C12_OneLiveEntryPerTarget ==
    \A t \in Targets :
        /\ Cardinality(LiveOf(t)) <= 1
        /\ LiveOf(t) # {} => LiveOf(t) = {handle[t]}

(* an object connected again while its first connection was live, and the   *)
(* entry of its second connect is the one it has now                        *)
C12_Witness ==
    /\ pc = "idle"
    /\ \E b \in backend :
          /\ b.existing # None /\ b.existing \in b.before
          /\ LiveOf(b.target) = {b.handle}
          /\ handle[b.target] = b.handle

-----------------------------------------------------------------------------
(* C13: Outbound sender lifetime tracks registry membership. For every      *)
(* handle connect ever issued, the sender of the outbound channel whose     *)
(* receiver went to the backend with that handle is alive if and only if    *)
(* the handle is in the registry: close and a processed Close action both   *)
(* drop it, and no sender outlives its entry.                               *)
C13_SenderLifetime ==
    \A b \in backend : b.receiver \in senders <=> b.handle \in Live(sockets)

(* one connection was closed by the script and the other by a processed     *)
(* Close action, and the senders of both are gone                           *)
C13_Witness ==
    \E b1 \in backend : \E b2 \in backend :
        /\ [handle |-> b1.handle, by |-> "close"] \in removed
        /\ [handle |-> b2.handle, by |-> "Close"] \in removed
        /\ b1.receiver \notin senders
        /\ b2.receiver \notin senders

-----------------------------------------------------------------------------
(* C14: Snapshot semantics of a drain pass. A pass begins by moving every   *)
(* queued action, in queue order, into its local vector and leaves the      *)
(* queue empty; while it dispatches it takes nothing from the queue, which  *)
(* only grows at its end, it walks its vector from the front, and every     *)
(* notification it dispatches belongs to the action at the front of the     *)
(* vector. What the backend sends during the pass waits for the next one.   *)
C14_Snapshot ==
    [][/\ (pc = "idle" /\ pc' = "dispatch") =>
              (actions' = receiver /\ receiver' = <<>>)
       /\ pc = "dispatch" =>
             /\ Len(receiver') >= Len(receiver)
             /\ SubSeq(receiver', 1, Len(receiver)) = receiver
             /\ actions' = actions \/ (actions # <<>> /\ actions' = Tail(actions))
             /\ \A i \in (Len(log) + 1)..Len(log') : log'[i].id = Head(actions).id]_vars

(* the pass has handled the action it took, and an action the backend sent  *)
(* while it was dispatching is still in the queue when its vector is empty  *)
C14_Witness ==
    /\ pc = "dispatch" /\ actions = <<>>
    /\ Len(sent) = 2
    /\ receiver = <<sent[2]>>
    /\ \E i \in 1..Len(log) : log[i].id = 1

-----------------------------------------------------------------------------
(* C15: Every action is consumed exactly once. No action is in the queue or *)
(* in a pass's vector twice; a pass that begins takes every queued action   *)
(* and leaves the queue empty; an action that has left the queue and the    *)
(* vector never comes back, so no two passes process it; and when passes    *)
(* keep being invoked and the backend has paused, every action that was     *)
(* sent is eventually processed (a process that has crashed invokes no      *)
(* passes).                                                                 *)
C15_ConsumedExactlyOnce ==
    /\ [](Len(receiver) + Len(actions) = Cardinality(Pending))
    /\ [][/\ (pc = "idle" /\ pc' = "dispatch") =>
                /\ receiver' = <<>>
                /\ \A i \in 1..Len(receiver) : actions'[i] = receiver[i]
          /\ \A id \in 1..Len(sent) : id \notin Pending => id \notin Pending']_vars
    /\ \A id \in 1..MaxActions :
          (Len(sent) >= id) ~> (Len(sent) >= id /\ (id \notin Pending \/ panicked))

(* the backend sent all its actions, passes took them and handled them, and *)
(* nothing is left in the queue                                             *)
C15_Witness ==
    /\ pc = "idle" /\ ~panicked
    /\ Len(sent) = MaxActions
    /\ Pending = {}
    /\ Len(log) >= MaxActions

-----------------------------------------------------------------------------
CloseNames == {"close", "onClose"}

(* C16: Close action ordering. Processing Close(h) with h present removes   *)
(* the entry, empties the read buffer of its object (and the write buffer   *)
(* of a Socket) and dispatches exactly one close notification, whose        *)
(* handler finds h not connected and the buffers empty; with h absent the   *)
(* step clears nothing and dispatches nothing.                              *)
C16_CloseOrdering ==
    /\ [](\A i \in 1..Len(log) :
             log[i].name \in CloseNames =>
                /\ ~log[i].view.connected
                /\ log[i].view.read = <<>>
                /\ log[i].view.write = <<>>)
    /\ [][(DispatchStep /\ Current.action.type = "Close") =>
             LET h == Current.action.handle
                 target == ArenaGet(sockets, h).target
             IN IF h \in Live(sockets)
                THEN /\ h \notin Live(sockets')
                     /\ read_buffer'[target.obj] = <<>>
                     /\ target.kind = "Avm2" => write_buffer'[target.obj] = <<>>
                     /\ Len(log') = Len(log) + 1
                     /\ log'[Len(log')].handle = h
                     /\ log'[Len(log')].name =
                           (IF target.kind = "Avm2" THEN "close" ELSE "onClose")
                ELSE /\ log' = log
                     /\ read_buffer' = read_buffer
                     /\ write_buffer' = write_buffer
                     /\ sockets' = sockets]_vars

(* a Socket received data, which its handler left in the read buffer, and   *)
(* then its Close action was processed: the close handler found the         *)
(* connection gone and the buffers empty                                    *)
C16_Witness ==
    \E i \in 1..Len(log) : \E j \in 1..Len(log) :
        /\ i < j
        /\ log[i].handle = log[j].handle
        /\ log[i].name = "socketData" /\ log[i].view.read # <<>>
        /\ log[j].name = "close"
        /\ ~log[j].view.connected /\ log[j].view.read = <<>>
        /\ read_buffer[log[j].target] = <<>> /\ write_buffer[log[j].target] = <<>>

-----------------------------------------------------------------------------
(* C17: Modern Data dispatch. Processing Data(h, payload) for a live Socket *)
(* dispatches exactly one socketData notification whose bytes-received      *)
(* field is the length of this payload and whose total field is 0; its      *)
(* handler finds the payload at the end of the read buffer, after what was  *)
(* there, and the write buffer as it was. The step itself changes neither   *)
(* the write buffer nor the registry: they differ afterwards only when the  *)
(* handler has closed the connection.                                       *)
C17_ModernData ==
    [][(/\ DispatchStep /\ Current.action.type = "Data"
        /\ Current.action.handle \in Live(sockets)
        /\ ArenaGet(sockets, Current.action.handle).target.kind = "Avm2") =>
          LET h == Current.action.handle
              data == Current.action.data
              target == ArenaGet(sockets, h).target.obj
              note == log'[Len(log')]
          IN /\ Len(log') = Len(log) + 1
             /\ SubSeq(log', 1, Len(log)) = log
             /\ note.handle = h /\ note.target = target /\ note.id = Current.id
             /\ note.name = "socketData"
             /\ note.arg = <<Len(data), 0>>
             /\ note.view = [connected |-> TRUE,
                             read |-> read_buffer[target] \o data,
                             write |-> write_buffer[target]]
             /\ h \in Live(sockets') =>
                   /\ read_buffer' = [read_buffer EXCEPT ![target] = @ \o data]
                   /\ write_buffer' = write_buffer
                   /\ sockets' = sockets
             /\ ~panicked']_vars

(* a Socket with bytes in its write buffer received a second payload: the   *)
(* event reports fewer bytes than the read buffer holds, and the write      *)
(* buffer and the entry are still there                                     *)
C17_Witness ==
    \E j \in 1..Len(log) :
        /\ log[j].name = "socketData"
        /\ log[j].arg[1] < Len(log[j].view.read)
        /\ log[j].view.write # <<>>
        /\ log[j].handle \in Live(sockets)
        /\ read_buffer[log[j].target] = log[j].view.read
        /\ write_buffer[log[j].target] = log[j].view.write

-----------------------------------------------------------------------------
(* the cause the backend gave for the failure that notification n reports *)
Cause(n) == sent[n.id].action.state
FailureCauses == {"Failed", "TimedOut"}
IsFailure(n) == sent[n.id].action.type = "Connect" /\ Cause(n) \in FailureCauses

(* what the failure arm tells the object of a connection, whatever the cause *)
FailureName(kind) == IF kind = "Avm2" THEN "ioError" ELSE "onConnect"
FailureArg(kind) ==
    IF kind = "Avm2" THEN <<"Error #2031: Socket Error.", 2031>> ELSE <<FALSE>>

(* C18: Failure causes are indistinguishable. What a Connect action with    *)
(* Failed or TimedOut does is a function of the state and the handle alone: *)
(* it dispatches one notification, onConnect(false) for an XMLSocket and    *)
(* ioError with the fixed message and code 2031 for a Socket, in which the  *)
(* cause does not occur, and by itself leaves registry and buffers as they  *)
(* are (only a handler that closes its connection changes them). So any two *)
(* failure notifications of one connection are the same notification, and  *)
(* two runs that differ only in the cause go through the same states.       *)
C18_FailureCauses ==
    /\ [](\A i \in 1..Len(log) : \A j \in 1..Len(log) :
             (IsFailure(log[i]) /\ IsFailure(log[j]) /\ log[i].handle = log[j].handle)
             => /\ log[i].name = log[j].name
                /\ log[i].arg = log[j].arg
                /\ log[i].target = log[j].target)
    /\ [][(/\ DispatchStep /\ Current.action.type = "Connect"
           /\ Current.action.state \in FailureCauses
           /\ Current.action.handle \in Live(sockets)) =>
             LET h == Current.action.handle
                 target == ArenaGet(sockets, h).target
             IN /\ log' = Append(log,
                       [handle |-> h, target |-> target.obj, id |-> Current.id,
                        name |-> FailureName(target.kind),
                        arg |-> FailureArg(target.kind),
                        view |-> [connected |-> TRUE,
                                  read |-> read_buffer[target.obj],
                                  write |-> IF target.kind = "Avm2"
                                            THEN write_buffer[target.obj] ELSE <<>>]])
                /\ \/ /\ sockets' = sockets /\ senders' = senders
                      /\ read_buffer' = read_buffer /\ write_buffer' = write_buffer
                   \/ /\ Live(sockets') = Live(sockets) \ {h}
                      /\ [handle |-> h, by |-> "close"] \in removed'
                /\ ~panicked']_vars

(* the backend reported Failed and then TimedOut for one connection, and    *)
(* the two notifications the object got differ in nothing but the action    *)
(* they answer                                                              *)
C18_Witness ==
    \E i \in 1..Len(log) : \E j \in 1..Len(log) :
        /\ IsFailure(log[i]) /\ Cause(log[i]) = "Failed"
        /\ IsFailure(log[j]) /\ Cause(log[j]) = "TimedOut"
        /\ [log[i] EXCEPT !.id = 0] = [log[j] EXCEPT !.id = 0]
        /\ log[i].handle \in Live(sockets)

-----------------------------------------------------------------------------
(* the outbound receiver connect_socket got together with the handle h *)
ReceiverOf(h) == (CHOOSE b \in backend : b.handle = h).receiver

(* C19: Outbound routing and order. send(h, b) for a live handle h puts b,  *)
(* unmodified, at the end of the channel whose receiver the backend got     *)
(* with h in connect, so successive sends arrive in the order of the calls; *)
(* it puts nothing on any other channel and changes neither the registry    *)
(* nor any read or write buffer.                                            *)
C19_OutboundRouting ==
    [][\A h \in Handles : \A data \in OutboundPayloads :
          (h \in Live(sockets) /\ send(h, data)) =>
             /\ outbound' = [outbound EXCEPT ![ReceiverOf(h)] = Append(@, data)]
             /\ UNCHANGED << sockets, receiver, handle, read_buffer, write_buffer,
                             senders, backend, pc, actions, log, removed, sent,
                             panicked >>]_vars

(* two different payloads were sent on one live connection and its receiver *)
(* holds them in the order of the calls, while the receiver of the other    *)
(* connection, which is live too, holds a single other send                 *)
C19_Witness ==
    \E h1 \in Live(sockets) : \E h2 \in Live(sockets) :
        /\ h1 # h2
        /\ outbound[ReceiverOf(h1)] = << <<97>>, <<255>> >>
        /\ outbound[ReceiverOf(h2)] = << <<255>> >>

-----------------------------------------------------------------------------
(* the connect calls that displaced a live connection: the object of b held *)
(* the handle b.existing, whose entry was in the registry, and now holds    *)
(* b.handle                                                                 *)
Displacements == {b \in backend : b.existing # None /\ b.existing \in b.before}

(* C20: Displaced-connection isolation. After an object reconnects, so that *)
(* its handle H1 is displaced by H2, processing an action addressed to H1   *)
(* (Connect, Data or Close) dispatches nothing, changes no buffer and       *)
(* removes no entry; and as long as H2 is live, the object's read buffer    *)
(* and its onData messages are made of the bytes of Data actions addressed  *)
(* to H2 alone, without the bytes received on H1, a partial message left in *)
(* the read buffer included.                                                *)
C20_DisplacedIsolation ==
    /\ [](\A b \in Displacements :
             b.handle \in Live(sockets) =>
                LET stream == DataHandled(b.handle, Len(sent))
                    notes == NotesOf(b.handle, "onData")
                IN IF b.target \in XmlSockets
                   THEN /\ [i \in 1..Len(notes) |-> notes[i].arg] = Segments(stream)
                        /\ read_buffer[b.target] = AfterLastZero(stream)
                   ELSE read_buffer[b.target] = stream)
    /\ [][\A b \in Displacements :
             (DispatchStep /\ Current.action.handle = b.existing) =>
                /\ log' = log
                /\ read_buffer' = read_buffer /\ write_buffer' = write_buffer
                /\ sockets' = sockets /\ senders' = senders
                /\ ~panicked']_vars

(* an XMLSocket reconnected with the beginning of a message in its read     *)
(* buffer; afterwards a Data action with the delimiter, addressed to the    *)
(* displaced handle, was processed: no message was delivered, the buffer is *)
(* empty and the new connection is live                                     *)
C20_Witness ==
    \E b \in Displacements :
        /\ b.buffered # <<>>
        /\ b.handle \in Live(sockets)
        /\ read_buffer[b.target] = <<>>
        /\ \E a \in Processed :
              /\ a.action.type = "Data" /\ a.action.handle = b.existing
              /\ \E i \in 1..Len(a.action.data) : a.action.data[i] = 0
              /\ \A i \in 1..Len(log) : log[i].id # a.id

=============================================================================
